---- MODULE Spec2Model ----
(***************************************************************************)
(* palo::DynamicBuffer (be/src/rpc/dynamic_buffer.h): a growable byte      *)
(* buffer with a write pointer, a bookmark and an ownership flag.          *)
(*                                                                         *)
(* Pointers are pairs [blk, off]: the heap block they point into and the   *)
(* byte offset inside it.  The null pointer is block 0, offset 0.  The     *)
(* heap is the sequence of all blocks ever obtained from new[]; a block    *)
(* keeps its bytes, the number of times delete[] was applied to it and the *)
(* place that allocated it (the constructor or grow).                      *)
(***************************************************************************)
EXTENDS Integers, Sequences, FiniteSets, TLC

\* ---------------------------------------------------------------- bounds
\* largest initial_size handed to the constructor and largest len handed to
\* ensure/reserve/add/add_unchecked/set
MaxLen == 2
\* largest buffer size an operation may produce
MaxCap == 4
\* largest number of new[] calls in one run
MaxBlocks == 2

\* ------------------------------------------------------------- constants
\* `size` is a uint32_t while every requested size is a size_t: storing a
\* size into the field reduces it modulo 2^32.  TLC's integers end at
\* 2^31-1, so the width is scaled down; every size of Spec stays below it.
SizeMod == 256

\* remaining() returns a size_t: a difference below zero wraps around modulo
\* 2^64.  The width is scaled down like that of `size`, to twice as many bits.
SizeTMod == SizeMod * SizeMod

\* the content of a byte that new[] returned and nobody wrote yet (or of a
\* byte of a block that was given back): indeterminate
Uninit == -1

Null == [blk |-> 0, off |-> 0]

\* ------------------------------------------------------------------ state
VARIABLES
    base,      \* uint8_t *base
    ptr,       \* uint8_t *ptr
    mark,      \* uint8_t *mark
    size,      \* uint32_t size
    own,       \* bool own
    heap,      \* the blocks obtained from new[], in allocation order
    ret,       \* the pointer the last call returned (Null for void calls)
    lenp,      \* what the last release() stored through lenp (-1: nothing)
    alive,     \* FALSE once the destructor has run
    own_buffer,\* history: the own_buffer argument of the constructor
    call,      \* the last call made on the object and its arguments
    appended,  \* history: the bytes handed to add() so far, in order
    pure,      \* history: only add() with non-null data was called so far
    dropped,   \* history: blocks that were base when a non-owning buffer grew
    detached   \* history: blocks that release() returned to the caller

vars == <<base, ptr, mark, size, own, heap, ret, lenp, alive, own_buffer, call,
          appended, pure, dropped, detached>>

\* the object as one value, so that the member functions compose
Self == [base |-> base, ptr |-> ptr, mark |-> mark, size |-> size,
         own |-> own, heap |-> heap, ret |-> ret, lenp |-> lenp]

\* ---------------------------------------------------------------- helpers
\* conversion of a size_t to the uint32_t field
Trunc32(n) == n % SizeMod

\* p - q for two pointers into the same block (or two null pointers)
PtrDiff(p, q) == p.off - q.off

\* p + n
PtrAdd(p, n) == [blk |-> p.blk, off |-> p.off + n]

\* new uint8_t[n]: a fresh block of n indeterminate bytes, allocated by `site`
Alloc(h, n, site) ==
    Append(h, [bytes |-> [i \in 1..n |-> Uninit], freed |-> 0, by |-> site])

\* delete [] p: nothing for a null pointer
Delete(h, p) ==
    IF p = Null THEN h
    ELSE [h EXCEPT ![p.blk].freed = @ + 1, ![p.blk].bytes = <<>>]

\* the n bytes starting at pointer p; a byte outside the block, or of a block
\* that was given back, reads as indeterminate
Read(h, p, n) ==
    [i \in 1..n |->
        IF p.blk \in 1..Len(h) /\ p.off + i \in 1..Len(h[p.blk].bytes)
        THEN h[p.blk].bytes[p.off + i]
        ELSE Uninit]

\* memcpy(dst, src, n) where src is given by its bytes; bytes that would land
\* past the end of the destination block are not stored in the block
Memcpy(h, dst, src, n) ==
    IF n = 0 \/ dst = Null THEN h
    ELSE [h EXCEPT ![dst.blk].bytes =
            [i \in 1..Len(@) |->
                IF i > dst.off /\ i <= dst.off + n THEN src[i - dst.off]
                ELSE @[i]]]

\* A block the object does not point to any more (given back to the
\* allocator, left to the caller by a non-owning growth, or handed out by an
\* earlier release()) is the allocator's or the caller's to write: its bytes
\* are out of the model from then on.  `keep` are the blocks still in view.
Disown(h, keep) ==
    [b \in 1..Len(h) |->
        IF b \in keep THEN h[b]
        ELSE [h[b] EXCEPT !.bytes = <<>>]]

\* [base, ptr) is the used part of the buffer.  What lies in [ptr, base+size)
\* is whatever earlier calls left there; no member function reads it (grow
\* copies ptr-base bytes, and ptr only moves forward over bytes that
\* add_unchecked has just written), so it is kept indeterminate.
Unused(h, s) ==
    IF s.base = Null THEN h
    ELSE [h EXCEPT ![s.base.blk].bytes =
            [i \in 1..Len(@) |-> IF i > PtrDiff(s.ptr, s.base) THEN Uninit ELSE @[i]]]

\* ------------------------------------------------------- member functions
remaining(s) == (s.size - PtrDiff(s.ptr, s.base)) % SizeTMod

fill(s) == PtrDiff(s.ptr, s.base)

empty(s) == s.ptr = s.base

\* grow with the copy condition inverted
grow_skip_copy(s, new_size, nocopy) ==
    LET h1 == Alloc(s.heap, new_size, "grow")
        new_buf == [blk |-> Len(h1), off |-> 0]
        h2 == IF nocopy /\ s.base # Null
              THEN Memcpy(h1, new_buf, Read(s.heap, s.base, fill(s)), fill(s))
              ELSE h1
        h3 == IF s.own THEN Delete(h2, s.base) ELSE h2
    IN [s EXCEPT !.ptr = PtrAdd(new_buf, PtrDiff(s.ptr, s.base)),
                 !.mark = PtrAdd(new_buf, PtrDiff(s.mark, s.base)),
                 !.base = new_buf,
                 !.size = Trunc32(new_size),
                 !.heap = h3]

\* grow that makes the object the owner of the region it allocates
grow_takes_ownership(s, new_size, nocopy) ==
    LET h1 == Alloc(s.heap, new_size, "grow")
        new_buf == [blk |-> Len(h1), off |-> 0]
        h2 == IF ~nocopy /\ s.base # Null
              THEN Memcpy(h1, new_buf, Read(s.heap, s.base, fill(s)), fill(s))
              ELSE h1
        h3 == IF s.own THEN Delete(h2, s.base) ELSE h2
    IN [s EXCEPT !.ptr = PtrAdd(new_buf, PtrDiff(s.ptr, s.base)),
                 !.mark = PtrAdd(new_buf, PtrDiff(s.mark, s.base)),
                 !.base = new_buf,
                 !.size = Trunc32(new_size),
                 !.own = TRUE,
                 !.heap = h3]

\* grow that gives the old region back whatever the ownership flag says
grow_deletes_always(s, new_size, nocopy) ==
    LET h1 == Alloc(s.heap, new_size, "grow")
        new_buf == [blk |-> Len(h1), off |-> 0]
        h2 == IF ~nocopy /\ s.base # Null
              THEN Memcpy(h1, new_buf, Read(s.heap, s.base, fill(s)), fill(s))
              ELSE h1
        h3 == Delete(h2, s.base)
    IN [s EXCEPT !.ptr = PtrAdd(new_buf, PtrDiff(s.ptr, s.base)),
                 !.mark = PtrAdd(new_buf, PtrDiff(s.mark, s.base)),
                 !.base = new_buf,
                 !.size = Trunc32(new_size),
                 !.heap = h3]

\* grow that never gives the old region back
grow_keeps_old(s, new_size, nocopy) ==
    LET h1 == Alloc(s.heap, new_size, "grow")
        new_buf == [blk |-> Len(h1), off |-> 0]
        h2 == IF ~nocopy /\ s.base # Null
              THEN Memcpy(h1, new_buf, Read(s.heap, s.base, fill(s)), fill(s))
              ELSE h1
    IN [s EXCEPT !.ptr = PtrAdd(new_buf, PtrDiff(s.ptr, s.base)),
                 !.mark = PtrAdd(new_buf, PtrDiff(s.mark, s.base)),
                 !.base = new_buf,
                 !.size = Trunc32(new_size),
                 !.heap = h2]

\* grow that puts the bookmark at the start of the new region
grow_mark_to_base(s, new_size, nocopy) ==
    LET h1 == Alloc(s.heap, new_size, "grow")
        new_buf == [blk |-> Len(h1), off |-> 0]
        h2 == IF ~nocopy /\ s.base # Null
              THEN Memcpy(h1, new_buf, Read(s.heap, s.base, fill(s)), fill(s))
              ELSE h1
        h3 == IF s.own THEN Delete(h2, s.base) ELSE h2
    IN [s EXCEPT !.ptr = PtrAdd(new_buf, PtrDiff(s.ptr, s.base)),
                 !.mark = new_buf,
                 !.base = new_buf,
                 !.size = Trunc32(new_size),
                 !.heap = h3]

grow(s, new_size, nocopy) ==
    LET h1 == Alloc(s.heap, new_size, "grow")
        new_buf == [blk |-> Len(h1), off |-> 0]
        h2 == IF ~nocopy /\ s.base # Null
              THEN Memcpy(h1, new_buf, Read(s.heap, s.base, fill(s)), fill(s))
              ELSE h1
        h3 == IF s.own THEN Delete(h2, s.base) ELSE h2
    IN [s EXCEPT !.ptr = PtrAdd(new_buf, PtrDiff(s.ptr, s.base)),
                 !.mark = PtrAdd(new_buf, PtrDiff(s.mark, s.base)),
                 !.base = new_buf,
                 !.size = Trunc32(new_size),
                 !.heap = h3]

\* ensure that compares len with the whole size, not with the unused part
ensure_against_size(s, len) ==
    IF len > s.size THEN grow(s, ((fill(s) + len) * 3) \div 2, FALSE)
    ELSE s

\* ensure that grows to what is needed, without the factor 3/2
ensure_exact(s, len) ==
    IF len > remaining(s) THEN grow(s, fill(s) + len, FALSE)
    ELSE s

ensure(s, len) ==
    IF len > remaining(s) THEN grow(s, ((fill(s) + len) * 3) \div 2, FALSE)
    ELSE s

\* reserve that never copies, as if nocopy defaulted to true
reserve_discards(s, len, nocopy) ==
    IF len > remaining(s) THEN grow(s, fill(s) + len, TRUE)
    ELSE s

\* reserve that empties the buffer when it is told not to copy
reserve_nocopy_empties(s, len, nocopy) ==
    IF len > remaining(s)
    THEN grow(IF nocopy THEN [s EXCEPT !.ptr = s.base] ELSE s,
              fill(s) + len, nocopy)
    ELSE s

\* reserve that asks for len bytes in all, not for len more bytes
reserve_len_only(s, len, nocopy) ==
    IF len > remaining(s) THEN grow(s, len, nocopy)
    ELSE s

reserve(s, len, nocopy) ==
    IF len > remaining(s) THEN grow(s, fill(s) + len, nocopy)
    ELSE s

\* add_unchecked without the guard on a null data pointer
add_unchecked_no_guard(s, data, len) ==
    [s EXCEPT !.ret = s.ptr,
              !.heap = IF data.null THEN s.heap
                       ELSE Memcpy(s.heap, s.ptr, data.bytes, len),
              !.ptr = PtrAdd(s.ptr, len)]

add_unchecked(s, data, len) ==
    IF data.null THEN [s EXCEPT !.ret = Null]
    ELSE [s EXCEPT !.ret = s.ptr,
                   !.heap = Memcpy(s.heap, s.ptr, data.bytes, len),
                   !.ptr = PtrAdd(s.ptr, len)]

\* add that looks at the data pointer before it makes room
add_guard_first(s, data, len) ==
    IF data.null THEN [s EXCEPT !.ret = Null]
    ELSE add_unchecked(ensure(s, len), data, len)

\* add that takes the position to return before it makes room
add_ret_before_ensure(s, data, len) ==
    [add_unchecked(ensure(s, len), data, len) EXCEPT
        !.ret = IF data.null THEN Null ELSE s.ptr]

add(s, data, len) == add_unchecked(ensure(s, len), data, len)

\* clear that gives the region back, as free() does
clear_releases(s) ==
    [s EXCEPT !.heap = IF s.own THEN Delete(s.heap, s.base) ELSE s.heap,
              !.base = Null, !.ptr = Null, !.mark = Null, !.size = 0]

clear(s) == [s EXCEPT !.ptr = s.base]

\* set that reserves behind the old contents instead of clearing first
set_without_clear(s, data, len) ==
    [add_unchecked(reserve(s, len, FALSE), data, len) EXCEPT !.ret = Null]

set(s, data, len) ==
    [add_unchecked(reserve(clear(s), len, FALSE), data, len) EXCEPT !.ret = Null]

set_mark(s) == [s EXCEPT !.mark = s.ptr]

\* free that leaves size as it was
free_keeps_size(s) ==
    [s EXCEPT !.heap = IF s.own THEN Delete(s.heap, s.base) ELSE s.heap,
              !.base = Null, !.ptr = Null, !.mark = Null]

\* free that leaves the pointers as they were
free_keeps_pointers(s) ==
    [s EXCEPT !.heap = IF s.own THEN Delete(s.heap, s.base) ELSE s.heap,
              !.size = 0]

free(s) ==
    [s EXCEPT !.heap = IF s.own THEN Delete(s.heap, s.base) ELSE s.heap,
              !.base = Null, !.ptr = Null, !.mark = Null, !.size = 0]

\* release that gives the region back like free() does
release_frees(s, want_len) ==
    [s EXCEPT !.ret = s.base,
              !.lenp = IF want_len THEN fill(s) ELSE -1,
              !.heap = IF s.own THEN Delete(s.heap, s.base) ELSE s.heap,
              !.ptr = Null, !.base = Null, !.mark = Null, !.size = 0]

\* release that stores the length after the pointers were reset
release_len_after_reset(s, want_len) ==
    [s EXCEPT !.ret = s.base,
              !.lenp = IF want_len THEN 0 ELSE -1,
              !.ptr = Null, !.base = Null, !.mark = Null, !.size = 0]

release(s, want_len) ==
    [s EXCEPT !.ret = s.base,
              !.lenp = IF want_len THEN fill(s) ELSE -1,
              !.ptr = Null, !.base = Null, !.mark = Null, !.size = 0]

destroy(s) ==
    [s EXCEPT !.heap = IF s.own THEN Delete(s.heap, s.base) ELSE s.heap]

\* ------------------------------------------------------------ the callers
\* the arguments a caller passes as `data`: a null pointer or an array
NullData == [null |-> TRUE, bytes |-> <<>>]

\* the arrays hold 1, 2, ..., so that no two bytes of an array are alike
Arrays == {[i \in 1..n |-> i] : n \in 0..MaxLen}

Data == {NullData} \cup {[null |-> FALSE, bytes |-> b] : b \in Arrays}

\* the lengths that may accompany `data`: the array's length, or any length
\* with a null pointer
Lens(data) == IF data.null THEN 0..MaxLen ELSE {Len(data.bytes)}

NoCall == [op |-> "ctor", len |-> 0, data |-> NullData, nocopy |-> FALSE,
           want_len |-> FALSE, grew |-> FALSE]

\* the object becomes r by the call c
Apply(r, c) ==
    LET grew == Len(r.heap) > Len(heap)
    IN /\ alive
       /\ base' = r.base /\ ptr' = r.ptr /\ mark' = r.mark /\ size' = r.size
       /\ own' = r.own
       /\ ret' = IF c.op \in {"add", "add_unchecked", "release"} THEN r.ret
                 ELSE Null
       /\ lenp' = IF c.op = "release" THEN r.lenp ELSE -1
       /\ heap' = Unused(Disown(r.heap, {r.base.blk, ret'.blk}), r)
       /\ call' = [c EXCEPT !.grew = grew]
       /\ pure' = (pure /\ c.op = "add" /\ ~c.data.null)
       /\ appended' = IF pure' THEN appended \o c.data.bytes ELSE <<>>
       /\ dropped' = IF grew /\ ~own /\ base # Null
                     THEN dropped \cup {base.blk} ELSE dropped
       /\ detached' = IF c.op = "release" /\ base # Null
                      THEN detached \cup {base.blk} ELSE detached
       /\ alive' = (c.op # "dtor")
       /\ own_buffer' = own_buffer

\* a call within the bounds on the number and the size of the regions
Step(r, c) ==
    /\ Len(r.heap) <= MaxBlocks
    /\ r.size <= MaxCap
    /\ Apply(r, c)

\* the constructor, for an initial_size out of `sizes`
Construct(sizes) ==
    \E initial_size \in sizes :
        /\ own_buffer \in BOOLEAN
        /\ size = Trunc32(initial_size)
        /\ own = own_buffer
        /\ heap = IF size # 0 THEN Alloc(<<>>, size, "ctor") ELSE <<>>
        /\ base = IF size # 0 THEN [blk |-> 1, off |-> 0] ELSE Null
        /\ ptr = base
        /\ mark = base
        /\ ret = Null
        /\ lenp = -1
        /\ alive = TRUE
        /\ call = NoCall
        /\ appended = <<>>
        /\ pure = TRUE
        /\ dropped = {}
        /\ detached = {}

Init == Construct(0..MaxLen)

Ensure ==
    \E len \in 0..MaxLen :
        Step(ensure(Self, len), [NoCall EXCEPT !.op = "ensure", !.len = len])

Reserve ==
    \E len \in 0..MaxLen, nocopy \in BOOLEAN :
        Step(reserve(Self, len, nocopy),
             [NoCall EXCEPT !.op = "reserve", !.len = len, !.nocopy = nocopy])

\* the caller's side of the contract: the data fits into the unused portion
AddUnchecked ==
    \E data \in Data : \E len \in Lens(data) :
        /\ data.null \/ len <= remaining(Self)
        /\ Step(add_unchecked(Self, data, len),
                [NoCall EXCEPT !.op = "add_unchecked", !.len = len, !.data = data])

Add ==
    \E data \in Data : \E len \in Lens(data) :
        Step(add(Self, data, len),
             [NoCall EXCEPT !.op = "add", !.len = len, !.data = data])

Set ==
    \E data \in Data : \E len \in Lens(data) :
        Step(set(Self, data, len),
             [NoCall EXCEPT !.op = "set", !.len = len, !.data = data])

Clear == Step(clear(Self), [NoCall EXCEPT !.op = "clear"])

SetMark == Step(set_mark(Self), [NoCall EXCEPT !.op = "set_mark"])

Free == Step(free(Self), [NoCall EXCEPT !.op = "free"])

Release ==
    \E want_len \in BOOLEAN :
        Step(release(Self, want_len),
             [NoCall EXCEPT !.op = "release", !.want_len = want_len])

Destroy == Step(destroy(Self), [NoCall EXCEPT !.op = "dtor"])

Next ==
    \/ Ensure
    \/ Reserve
    \/ AddUnchecked
    \/ Add
    \/ Set
    \/ Clear
    \/ SetMark
    \/ Free
    \/ Release
    \/ Destroy

Spec == Init /\ [][Next]_vars

\* ------------------------------------------------------------ observations
\* the used portion [base, ptr) of the current region
Used == Read(heap, base, fill(Self))

TypeOK ==
    /\ base.blk = ptr.blk /\ base.blk = mark.blk
    /\ base.off = 0
    /\ base.blk \in 0..Len(heap)
    /\ size \in 0..MaxCap

\* the object's fields, the blocks and the used bytes are what they were
Untouched ==
    /\ base' = base /\ ptr' = ptr /\ mark' = mark /\ size' = size
    /\ own' = own
    /\ Len(heap') = Len(heap)
    /\ \A b \in 1..Len(heap) : heap'[b].freed = heap[b].freed
    /\ Used' = Used

\* ----------------------------------------------------------------- claims

\* C1: after any sequence of add(data_i, len_i) calls with non-null data,
\* fill() is len_1 + ... + len_N and [base, ptr) holds data_1 .. data_N in
\* order, however many times the buffer grew on the way.
C1_AppendConcatenation ==
    pure => /\ fill(Self) = Len(appended)
            /\ Used = appended

\* two appends, each of which reallocated, and the second array is behind the
\* first one
C1_Witness ==
    /\ pure /\ call.op = "add" /\ call.grew
    /\ Len(heap) = 2 /\ heap[1].by = "grow" /\ heap[2].by = "grow"
    /\ Used = <<1, 1, 2>>

\* C2 as stated: once a buffer created with own_buffer = false has grown, the
\* destructor gives the region that grow allocated back.
C2_DestructorFreesGrownRegion ==
    (~alive /\ ~own_buffer /\ base # Null /\ heap[base.blk].by = "grow")
        => heap[base.blk].freed = 1

\* C2 as amended: a buffer created with own_buffer = false stays non-owning
\* when it grows, and no region that grow allocated for it is ever given back
\* by the object (not by the destructor, free() or a further growth).
C2_GrownRegionNeverFreed ==
    ~own_buffer =>
        /\ ~own
        /\ \A b \in 1..Len(heap) : heap[b].by = "grow" => heap[b].freed = 0

\* a non-owning buffer that grew and was destroyed
C2_Witness ==
    /\ ~alive /\ ~own_buffer /\ base # Null
    /\ heap[base.blk].by = "grow" /\ heap[base.blk].freed = 0

\* C3: the region a non-owning buffer holds when it grows is never given
\* back by the object, neither by that growth nor by anything after it.
C3_DroppedRegionNeverFreed ==
    \A b \in dropped : heap[b].freed = 0

\* a non-owning buffer grew away from the constructor's region and was then
\* destroyed
C3_Witness ==
    /\ ~alive /\ 1 \in dropped /\ heap[1].by = "ctor" /\ base.blk = 2

\* C4: a region that release() returned is never given back by the object,
\* whatever the ownership flag.
C4_DetachedRegionNeverFreed ==
    \A b \in detached : heap[b].freed = 0

\* an owning buffer released two regions and was then destroyed
C4_Witness ==
    /\ ~alive /\ own_buffer /\ detached = {1, 2}

\* C5: release(lenp) returns base, the first fill() bytes of the returned
\* region are the used bytes, *lenp is the fill() from before the call when
\* lenp is given, and the object ends with size 0 and null base, ptr and mark.
C5_Release ==
    [][call'.op = "release" =>
        /\ ret' = base
        /\ Read(heap', ret', fill(Self)) = Used
        /\ (pure => Read(heap', ret', fill(Self)) = appended)
        /\ lenp' = (IF call'.want_len THEN fill(Self) ELSE -1)
        /\ size' = 0 /\ base' = Null /\ ptr' = Null /\ mark' = Null]_vars

\* release(&len) of a buffer holding two bytes
C5_Witness ==
    /\ call.op = "release" /\ call.want_len /\ lenp = 2
    /\ ret # Null /\ Read(heap, ret, lenp) = <<1, 2>>
    /\ base = Null /\ size = 0

\* C6: base <= ptr <= base + size in every state, add_unchecked being called
\* only with len <= remaining().
C6_CursorWithinRegion ==
    /\ ptr.blk = base.blk
    /\ 0 <= fill(Self)
    /\ fill(Self) <= size

\* add_unchecked filled the buffer to its last byte
C6_Witness ==
    /\ call.op = "add_unchecked" /\ call.len = 2
    /\ size > 0 /\ fill(Self) = size

\* C7: ensure(len) changes nothing when len <= remaining(); otherwise the new
\* size is floor((fill() + len) * 3 / 2) for the fill() from before the call.
\* Either way remaining() >= len afterwards and the used bytes are the same.
C7_Ensure ==
    [][call'.op = "ensure" =>
        /\ (call'.len <= remaining(Self) => Untouched)
        /\ (call'.len > remaining(Self) =>
                /\ 2 * size' <= 3 * (fill(Self) + call'.len)
                /\ 3 * (fill(Self) + call'.len) < 2 * size' + 2)
        /\ remaining(Self)' >= call'.len
        /\ fill(Self)' = fill(Self)
        /\ Used' = Used]_vars

\* ensure(1) on two used bytes grew the buffer to floor(9/2) = 4
C7_Witness ==
    /\ call.op = "ensure" /\ call.grew /\ call.len = 1
    /\ Used = <<1, 2>> /\ size = 4

C9_CapacityNeverShrinks ==
    [][\/ size' >= size
       \/ call'.op \in {"free", "release"} /\ size' = 0]_vars

\* set() on a full buffer reallocated
C9_Witness ==
    /\ call.op = "set" /\ call.grew /\ heap[1].by = "ctor" /\ size = 2

\* C10: the offset of mark from base is changed by set_mark(), free() and
\* release() only; a call that reallocates carries it over to the new region.
C10_BookmarkOffset ==
    [][call'.op \notin {"set_mark", "free", "release"} =>
        /\ mark'.blk = base'.blk
        /\ PtrDiff(mark', base') = PtrDiff(mark, base)]_vars

\* an append reallocated a buffer whose bookmark stood behind the first byte
C10_Witness ==
    /\ call.op = "add" /\ call.grew /\ ~call.data.null
    /\ PtrDiff(mark, base) = 1 /\ fill(Self) > 1

\* the freed counts of all blocks but b are what they were
OthersNotFreed(b) ==
    /\ Len(heap') = Len(heap)
    /\ \A x \in 1..Len(heap) : x # b => heap'[x].freed = heap[x].freed

\* C11: free() gives the current region back when the buffer owns it and
\* gives nothing back when it does not; either way it leaves size 0 and null
\* base, ptr and mark, and an add(data, len) with non-null data right after
\* it leaves fill() = len and the used bytes equal to data.
C11_Free ==
    [][/\ call'.op = "free" =>
            /\ (own /\ base # Null) =>
                    /\ heap'[base.blk].freed = heap[base.blk].freed + 1
                    /\ OthersNotFreed(base.blk)
            /\ (~own \/ base = Null) => OthersNotFreed(0)
            /\ size' = 0 /\ base' = Null /\ ptr' = Null /\ mark' = Null
       /\ (call.op = "free" /\ call'.op = "add" /\ ~call'.data.null) =>
            /\ fill(Self)' = call'.len
            /\ Used' = call'.data.bytes]_vars

\* free() on an owning buffer that had grown before: both regions were given
\* back once and the object is unallocated
C11_Witness ==
    /\ call.op = "free" /\ alive /\ own /\ Len(heap) = 2
    /\ heap[1].freed = 1 /\ heap[2].freed = 1
    /\ base = Null /\ ptr = Null /\ mark = Null /\ size = 0

\* C12: clear() makes fill() zero and leaves size and base as they were, and
\* an add() right after it whose len is at most that size allocates nothing.
C12_Clear ==
    [][/\ call'.op = "clear" =>
            /\ fill(Self)' = 0
            /\ size' = size /\ base' = base
            /\ OthersNotFreed(0)
       /\ (call.op = "clear" /\ call'.op = "add" /\ call'.len <= size) =>
            /\ base' = base /\ size' = size
            /\ OthersNotFreed(0)]_vars

\* clear() emptied a buffer of four bytes whose bookmark stood at the end
C12_Witness ==
    /\ call.op = "clear" /\ size = 4 /\ fill(Self) = 0
    /\ PtrDiff(mark, base) = 4

\* C13: set(data, len) with non-null data leaves fill() = len and the used
\* bytes equal to data; size becomes len when len was above the old size and
\* stays otherwise.
C13_Set ==
    [][(call'.op = "set" /\ ~call'.data.null) =>
        /\ fill(Self)' = call'.len
        /\ Used' = call'.data.bytes
        /\ size' = (IF call'.len > size THEN call'.len ELSE size)]_vars

\* set() replaced one used byte of a one-byte buffer by two bytes
C13_Witness ==
    /\ call.op = "set" /\ call.grew /\ Len(heap) = 2
    /\ Len(heap[1].bytes) + heap[1].freed = 1
    /\ Used = <<1, 2>> /\ size = 2

\* C14: add_unchecked(null, len) returns null and leaves the pointers, the
\* size and the bytes as they were, for any len.
C14_AddUncheckedNull ==
    [][(call'.op = "add_unchecked" /\ call'.data.null) =>
        /\ ret' = Null
        /\ Untouched]_vars

\* add_unchecked(null, 2) on a buffer with bytes in it and no room for two
C14_Witness ==
    /\ call.op = "add_unchecked" /\ call.data.null /\ call.len = 2
    /\ fill(Self) = 2 /\ remaining(Self) = 1 /\ ret = Null

\* C15: add(null, len) returns null and leaves fill() and the used bytes as
\* they were, but it makes room first: when len > remaining() it reallocates
\* and size becomes floor((fill() + len) * 3 / 2).
C15_AddNull ==
    [][(call'.op = "add" /\ call'.data.null) =>
        /\ ret' = Null
        /\ fill(Self)' = fill(Self)
        /\ Used' = Used
        /\ (call'.len <= remaining(Self) => Untouched)
        /\ (call'.len > remaining(Self) =>
                /\ base' # base /\ Len(heap') = Len(heap) + 1
                /\ 2 * size' <= 3 * (fill(Self) + call'.len)
                /\ 3 * (fill(Self) + call'.len) < 2 * size' + 2)]_vars

\* add(null, 1) on a full two-byte buffer reallocated it to floor(9/2) = 4
C15_Witness ==
    /\ call.op = "add" /\ call.data.null /\ call.len = 1 /\ call.grew
    /\ Used = <<1, 2>> /\ size = 4 /\ ret = Null

\* C16: reserve(len, nocopy = true) that has to grow copies nothing into the
\* new region and keeps the offsets of ptr and mark: fill() is what it was
\* and size is that fill() + len.
C16_ReserveNoCopy ==
    [][(call'.op = "reserve" /\ call'.nocopy /\ call'.len > remaining(Self)) =>
        /\ base' # base /\ Len(heap') = Len(heap) + 1
        /\ fill(Self)' = fill(Self)
        /\ PtrDiff(mark', base') = PtrDiff(mark, base)
        /\ size' = fill(Self) + call'.len
        /\ Used' = [i \in 1..fill(Self) |-> Uninit]]_vars

\* reserve(2, true) on a buffer with two used bytes: still two used bytes,
\* none of them written
C16_Witness ==
    /\ call.op = "reserve" /\ call.nocopy /\ call.grew /\ call.len = 2
    /\ fill(Self) = 2 /\ size = 4 /\ PtrDiff(mark, base) = 2
    /\ Used = <<Uninit, Uninit>>

\* C17: add(data, len) with non-null data returns the place the data was
\* written to: offset fill()-before-the-call of the region that is current
\* after the call, also when the call reallocated.
C17_AddReturns ==
    [][(call'.op = "add" /\ ~call'.data.null) =>
        /\ ret' = [blk |-> base'.blk, off |-> fill(Self)]
        /\ Read(heap', ret', call'.len) = call'.data.bytes]_vars

\* an append that reallocated returned offset 1 of the new region
C17_Witness ==
    /\ call.op = "add" /\ ~call.data.null /\ call.grew
    /\ ret = [blk |-> 2, off |-> 1] /\ base.blk = 2
    /\ Used = <<1, 1, 2>>

\* C18: no region is given back twice, and as long as the object lives its
\* pointers, through which every read and write goes, are null or point into
\* a region that has not been given back.
C18_NoDoubleFreeNoUseAfterFree ==
    /\ \A b \in 1..Len(heap) : heap[b].freed <= 1
    /\ (alive /\ base # Null) =>
            /\ heap[base.blk].freed = 0
            /\ ptr.blk = base.blk /\ mark.blk = base.blk
    /\ (alive /\ base = Null) => (ptr = Null /\ mark = Null)

\* an owning buffer grew, was freed, and was destroyed
C18_Witness ==
    /\ ~alive /\ own /\ base = Null /\ Len(heap) = 2
    /\ heap[1].freed = 1 /\ heap[2].freed = 1

\* C19: once a buffer created with own_buffer = true is destroyed, every
\* region it allocated was either given back exactly once or returned by
\* release().
C19_NoLeak ==
    (own_buffer /\ ~alive) =>
        \A b \in 1..Len(heap) :
            IF b \in detached THEN heap[b].freed = 0 ELSE heap[b].freed = 1

\* an owning buffer released its first region, allocated a second one and
\* was destroyed
C19_Witness ==
    /\ ~alive /\ own_buffer /\ detached = {1} /\ base.blk = 2
    /\ heap[2].freed = 1

\* ------------------------------------------- sizes beyond the size field
\* The smallest len for which ensure() on an empty buffer asks grow() for
\* SizeMod bytes or more, i.e. for a size that does not fit `size`.
WideLen == (2 * SizeMod) \div 3 + 1

WideLens == {0, WideLen}

\* largest region grow() may allocate here
WideCap == 2 * SizeMod

WideData ==
    {NullData} \cup {[null |-> FALSE, bytes |-> [i \in 1..n |-> i]] : n \in WideLens}

WLens(data) == IF data.null THEN WideLens ELSE {Len(data.bytes)}

\* a call within the bounds on the number and the allocated size of the
\* regions.  Once add_unchecked has written past the end of the allocated
\* region the behaviour is undefined, and no further call is followed.
WStep(r, c) ==
    /\ Len(r.heap) <= MaxBlocks
    /\ r.base # Null => Len(r.heap[r.base.blk].bytes) <= WideCap
    /\ base # Null => fill(Self) <= Len(heap[base.blk].bytes)
    /\ Apply(r, c)

WInit == Construct({0, 1, SizeMod + 1})

WEnsure ==
    \E len \in WideLens :
        WStep(ensure(Self, len), [NoCall EXCEPT !.op = "ensure", !.len = len])

WReserve ==
    \E len \in WideLens, nocopy \in BOOLEAN :
        WStep(reserve(Self, len, nocopy),
              [NoCall EXCEPT !.op = "reserve", !.len = len, !.nocopy = nocopy])

WAddUnchecked ==
    \E data \in WideData : \E len \in WLens(data) :
        /\ data.null \/ len <= remaining(Self)
        /\ WStep(add_unchecked(Self, data, len),
                 [NoCall EXCEPT !.op = "add_unchecked", !.len = len, !.data = data])

WAdd ==
    \E data \in WideData : \E len \in WLens(data) :
        WStep(add(Self, data, len),
              [NoCall EXCEPT !.op = "add", !.len = len, !.data = data])

WSet ==
    \E data \in WideData : \E len \in WLens(data) :
        WStep(set(Self, data, len),
              [NoCall EXCEPT !.op = "set", !.len = len, !.data = data])

WClear == WStep(clear(Self), [NoCall EXCEPT !.op = "clear"])

WSetMark == WStep(set_mark(Self), [NoCall EXCEPT !.op = "set_mark"])

WFree == WStep(free(Self), [NoCall EXCEPT !.op = "free"])

WRelease ==
    \E want_len \in BOOLEAN :
        WStep(release(Self, want_len),
              [NoCall EXCEPT !.op = "release", !.want_len = want_len])

WDestroy == WStep(destroy(Self), [NoCall EXCEPT !.op = "dtor"])

WNext ==
    \/ WEnsure
    \/ WReserve
    \/ WAddUnchecked
    \/ WAdd
    \/ WSet
    \/ WClear
    \/ WSetMark
    \/ WFree
    \/ WRelease
    \/ WDestroy

SpecWide == WInit /\ [][WNext]_vars

\* C20: while the object lives, size is the number of bytes allocated for
\* the region at base (0 when there is none), whatever size the constructor
\* or grow() was asked for, so that size - fill() never goes below zero.
C20_SizeIsAllocation ==
    alive =>
        /\ size = (IF base = Null THEN 0 ELSE Len(heap[base.blk].bytes))
        /\ size - fill(Self) >= 0
        /\ remaining(Self) = size - fill(Self)
====
